---- MODULE Spec2Model ----
\* DON TRADING JOURNAL Cloud Functions (src/functions/index.js): the retrying
\* upstream client metaFetch and the seven callable operations built on it,
\* against a per-user Firestore document and the MetaApi provisioning service.
EXTENDS Integers, Sequences, FiniteSets, TLC

----------------------------------------------------------------------------
\* Bounds of the model.

\* Largest explicit opts.retries a direct call of metaFetch is given.
MaxRetriesArg == 6
\* Number of accounts the upstream service will create in one behaviour.
MaxAccounts == 2

\* Invocations that may exist; `procs` says which ones a behaviour uses.
Procs == {1, 2}

----------------------------------------------------------------------------
\* JavaScript values.

\* opts.retries when the caller passes none.
Undefined == -1
\* err.status of an Error that was never given one.
NoStatus == 0
\* parseInt's result on a string with no leading number.
NaN == -999999
\* metaApiAccountId of a document without that field.
NoId == 0

\* const maxRetries = opts.retries ?? 5
DefaultRetries == 5
\* Math.min(wait, 15)
MaxWaitSeconds == 15
\* for (var i = 0; i < 30; i++)
PollLimit == 30
\* setTimeout(r, 2000)
PollIntervalMs == 2000

Digits == {"0", "1", "2", "3", "4", "5", "6", "7", "8", "9"}

DigitVal(c) ==
    CASE c = "0" -> 0 [] c = "1" -> 1 [] c = "2" -> 2 [] c = "3" -> 3
      [] c = "4" -> 4 [] c = "5" -> 5 [] c = "6" -> 6 [] c = "7" -> 7
      [] c = "8" -> 8 [] c = "9" -> 9

RECURSIVE SkipSpace(_)
SkipSpace(s) ==
    IF s # <<>> /\ Head(s) = " " THEN SkipSpace(Tail(s)) ELSE s

RECURSIVE ParseDigits(_, _)
ParseDigits(s, acc) ==
    IF s # <<>> /\ Head(s) \in Digits
    THEN ParseDigits(Tail(s), acc * 10 + DigitVal(Head(s)))
    ELSE acc

\* parseInt(str, 10): leading blanks, an optional sign, then digits up to the
\* first character that is none; NaN when there is no digit.
ParseInt(str) ==
    LET s == SkipSpace(str)
        signed == s # <<>> /\ Head(s) \in {"-", "+"}
        t == IF signed THEN Tail(s) ELSE s
    IN  IF t = <<>> \/ Head(t) \notin Digits THEN NaN
        ELSE IF signed /\ Head(s) = "-" THEN 0 - ParseDigits(t, 0)
        ELSE ParseDigits(t, 0)

\* Math.min(a, b): NaN when either argument is NaN.
MathMin(a, b) ==
    IF a = NaN \/ b = NaN THEN NaN ELSE IF a < b THEN a ELSE b

\* a * k on JavaScript numbers.
Times(a, k) == IF a = NaN THEN NaN ELSE a * k

\* setTimeout(r, ms): the time the timer takes. A delay that is NaN or below
\* 1 fires at once (Node runs it as 1 ms, below the resolution kept here).
TimerDelay(ms) == IF ms = NaN \/ ms < 1 THEN 0 ELSE ms

----------------------------------------------------------------------------
\* HTTP responses of the upstream service.

\* The retry-after header: absent, or present with a text.
HintAbsent == [present |-> FALSE, value |-> <<>>]

HintStrings ==
    { <<>>, <<"0">>, <<"5">>, <<"1", "5">>, <<"1", "6">>, <<"9", "9">>,
      <<"-", "3">>, <<"x">>, <<"5", "s">>, <<" ", "5">> }

Hints == {HintAbsent} \cup {[present |-> TRUE, value |-> v] : v \in HintStrings}

\* Lifecycle state and connection status of a provisioned account.
AccountStates == {"DEPLOYING", "DEPLOYED"}
ConnectionStatuses == {"DISCONNECTED", "CONNECTED"}

\* A parsed JSON body. shape: "account" (an account object), "wrapped" (an
\* object holding the field the caller looks for), "array", "object" (any
\* other object), "none" (no body).
Json(shape, id, state, cs) ==
    [shape |-> shape, id |-> id, state |-> state, connectionStatus |-> cs]

NoJson == Json("none", NoId, "", "")

\* Messages are sequences of words.
MsgAlreadyExists == <<"Account", "already", "exists">>
MsgNotFound == <<"Account", "not", "found">>
MsgExistsAlready == <<"exists", "already">>
UpstreamMessages == {MsgAlreadyExists, MsgNotFound, MsgExistsAlready}

ErrorStatuses == {403, 404, 500}

Response(kind, status, hint, parses, message, value) ==
    [kind |-> kind, status |-> status, hint |-> hint, parses |-> parses,
     message |-> message, value |-> value]

NoResponse == Response("none", 0, HintAbsent, FALSE, <<>>, NoJson)

\* fetch() rejects: no response at all.
NetworkFailure == Response("net", 0, HintAbsent, FALSE, <<>>, NoJson)

Accepted == {Response("http", 202, h, FALSE, <<>>, NoJson) : h \in Hints}

\* Error bodies: not JSON, JSON without a message, JSON with a message.
ErrorBodies(status) ==
    { Response("http", status, HintAbsent, FALSE, <<>>, NoJson),
      Response("http", status, HintAbsent, TRUE, <<>>, NoJson) }
    \cup {Response("http", status, HintAbsent, TRUE, m, NoJson) : m \in UpstreamMessages}

\* res.ok
ResOk(status) == status >= 200 /\ status <= 299

----------------------------------------------------------------------------
\* Errors and results.

Err(name, message, status) == [name |-> name, message |-> message, status |-> status]

NoErr == Err("none", <<>>, NoStatus)

Ret(kind, value, err) == [kind |-> kind, value |-> value, err |-> err]

NoRet == Ret("none", NoJson, NoErr)

\* throw new Error("MetaApi sigue procesando. Reintenta en unos segundos.")
MsgStillProcessing == <<"MetaApi", "sigue", "procesando.", "Reintenta", "en", "unos", "segundos.">>

StillProcessing == Err("Error", MsgStillProcessing, NoStatus)

\* The TypeError fetch() rejects with.
TransportError == Err("TypeError", <<"fetch", "failed">>, NoStatus)

\* The SyntaxError res.json() rejects with on a body that is not JSON.
JsonSyntaxError == Err("SyntaxError", <<"Unexpected", "end", "of", "JSON", "input">>, NoStatus)

----------------------------------------------------------------------------
\* State.

VARIABLES
    store,   \* the document users/{uid} of the one user
    remote,  \* identifiers of the accounts that exist upstream
    nextId,  \* the identifier the next created account gets
    procs,   \* the invocations this behaviour uses
    call,    \* per invocation: the handler's position and locals
    mf       \* per invocation: the metaFetch call in progress

vars == <<store, remote, nextId, procs, call, mf>>

\* A field a document does not have.
NoField == ""

\* users/{uid}: exists is doc.exists, the rest doc.data(). profile stands for
\* the fields of the document this code never names.
Doc(exists, id, server, login, platform, email, connectedAt, disconnectedAt, profile) ==
    [exists |-> exists, metaApiAccountId |-> id, brokerServer |-> server,
     mtLogin |-> login, platform |-> platform, email |-> email,
     connectedAt |-> connectedAt, disconnectedAt |-> disconnectedAt,
     profile |-> profile]

NoDoc == Doc(FALSE, NoId, NoField, NoField, NoField, NoField, FALSE, FALSE, FALSE)

ProfileDoc == Doc(TRUE, NoId, NoField, NoField, NoField, NoField, FALSE, FALSE, TRUE)

\* Call sites of metaFetch.
Sites ==
    {"lookup", "create", "poll", "info", "metrics", "enable", "trades",
     "deals", "growth", "delete", "direct"}

\* opts.retries || 5: what the line would give if written with ||, where a
\* retries of 0 counts as missing.
MaxRetriesOrZeroAsDefault(retries) ==
    IF retries = Undefined \/ retries = 0 THEN DefaultRetries ELSE retries

\* const maxRetries = opts.retries ?? 5
MaxRetriesOf(retries) ==
    IF retries = Undefined THEN DefaultRetries ELSE retries

\* The loop test written with <, one pass short.
LoopCondStrict(i, maxRetries) == i < maxRetries

\* The loop test of metaFetch: i <= maxRetries.
LoopCond(i, maxRetries) == i <= maxRetries

\* res.headers.get("retry-after") || "5": null and "" both give "5".
RetryAfterOrDefault(hint) ==
    IF ~hint.present \/ hint.value = <<>> THEN <<"5">> ELSE hint.value

\* The delay without Math.min: wait * 1000.
WaitMsUnclamped(hint) ==
    Times(ParseInt(RetryAfterOrDefault(hint)), 1000)

\* The delay metaFetch hands to setTimeout after a 202, in ms:
\* Math.min(wait, 15) * 1000.
WaitMs(hint) ==
    Times(MathMin(ParseInt(RetryAfterOrDefault(hint)), MaxWaitSeconds), 1000)

\* The Error of a response that is not ok, without err.status = res.status.
HttpErrorNoStatus(res) ==
    Err("Error",
        IF res.parses /\ res.message # <<>> THEN res.message
        ELSE <<"HTTP", ToString(res.status)>>,
        NoStatus)

\* The Error metaFetch throws on a response that is not ok:
\* JSON.parse(text).message || `HTTP ${res.status}`, with err.status set.
HttpError(res) ==
    Err("Error",
        IF res.parses /\ res.message # <<>> THEN res.message
        ELSE <<"HTTP", ToString(res.status)>>,
        res.status)

\* One activation of metaFetch. nreq counts the requests it has issued and
\* last202At is the number of the latest request answered with 202.
MetaFetchCall(site, target, retries) ==
    [state |-> "fetch", site |-> site, target |-> target, retries |-> retries,
     maxRetries |-> MaxRetriesOf(retries), i |-> 0, res |-> NoResponse,
     wait |-> 0, ret |-> NoRet, nreq |-> 0, last202At |-> 0]

MfIdle ==
    [state |-> "idle", site |-> "none", target |-> NoId, retries |-> Undefined,
     maxRetries |-> 0, i |-> 0, res |-> NoResponse, wait |-> 0, ret |-> NoRet,
     nreq |-> 0, last202At |-> 0]

----------------------------------------------------------------------------
\* The upstream service.

\* Whether the request of this site addresses an account that exists.
Addressed(site, target) ==
    site \in {"create", "direct"} \/ target \in remote

\* The 2xx responses a request can get.
OkResponses(site, target) ==
    IF ~Addressed(site, target) THEN {}
    ELSE CASE site \in {"lookup", "poll"} ->
                {Response("http", 200, HintAbsent, TRUE, <<>>, Json("account", target, s, c)) :
                    s \in AccountStates, c \in ConnectionStatuses}
           [] site = "create" ->
                IF nextId <= MaxAccounts
                THEN {Response("http", 201, HintAbsent, TRUE, <<>>,
                               Json("account", nextId, "DEPLOYING", "DISCONNECTED"))}
                ELSE {}
           [] site \in {"delete", "enable"} ->
                {Response("http", 204, HintAbsent, FALSE, <<>>, NoJson),
                 Response("http", 200, HintAbsent, TRUE, <<>>, Json("object", NoId, "", ""))}
           [] OTHER ->
                {Response("http", 200, HintAbsent, TRUE, <<>>, Json(sh, NoId, "", "")) :
                    sh \in {"wrapped", "array", "object"}}

\* The error responses a request can get: 404 only for an account that is gone.
ErrorResponses(site, target) ==
    UNION {ErrorBodies(s) :
            s \in IF Addressed(site, target) /\ site # "direct"
                  THEN ErrorStatuses \ {404} ELSE ErrorStatuses}

Responses(site, target) ==
    {NetworkFailure} \cup Accepted \cup ErrorResponses(site, target)
        \cup OkResponses(site, target)

\* What a request changes upstream: a created account exists, a deleted one
\* does not.
RemoteAfter(site, target, res) ==
    IF res.kind = "http" /\ ResOk(res.status) /\ res.status # 202
    THEN CASE site = "create" -> remote \cup {res.value.id}
           [] site = "delete" -> remote \ {target}
           [] OTHER -> remote
    ELSE remote

NextIdAfter(site, res) ==
    IF site = "create" /\ res.kind = "http" /\ ResOk(res.status) /\ res.status # 202
    THEN nextId + 1 ELSE nextId

----------------------------------------------------------------------------
\* metaFetch.

\* What metaFetch does with a response: "sleep" on 202, otherwise it ends
\* with the body parsed or with an error.
Outcome(res) ==
    IF res.kind = "net" THEN Ret("err", NoJson, TransportError)
    ELSE IF res.status = 202 THEN NoRet
    ELSE IF ~ResOk(res.status) THEN Ret("err", NoJson, HttpError(res))
    ELSE IF res.parses THEN Ret("ok", res.value, NoErr)
    ELSE Ret("err", NoJson, JsonSyntaxError)

\* One pass of the loop body: the request goes out and its response is handled.
MetaFetchSend(p) ==
    /\ p \in procs
    /\ mf[p].state = "fetch"
    /\ LoopCond(mf[p].i, mf[p].maxRetries)
    /\ \E res \in Responses(mf[p].site, mf[p].target) :
        /\ remote' = RemoteAfter(mf[p].site, mf[p].target, res)
        /\ nextId' = NextIdAfter(mf[p].site, res)
        /\ IF res.kind = "http" /\ res.status = 202
           THEN mf' = [mf EXCEPT ![p].state = "sleep", ![p].res = res,
                                 ![p].wait = TimerDelay(WaitMs(res.hint)),
                                 ![p].nreq = @ + 1,
                                 ![p].last202At = mf[p].nreq + 1]
           ELSE mf' = [mf EXCEPT ![p].state = "ret", ![p].res = res,
                                 ![p].ret = Outcome(res),
                                 ![p].nreq = @ + 1]
        /\ call' = [call EXCEPT ![p].polls =
                        IF mf[p].site = "poll" THEN @ + 1 ELSE @,
                                ![p].creates =
                        IF mf[p].site = "create" THEN @ + 1 ELSE @,
                                ![p].sent = @ + 1]
    /\ UNCHANGED <<store, procs>>

\* The timer of a 202 runs out: continue with the next pass.
MetaFetchSleep(p) ==
    /\ p \in procs
    /\ mf[p].state = "sleep"
    /\ mf' = [mf EXCEPT ![p].state = "fetch", ![p].i = @ + 1,
                        ![p].res = NoResponse, ![p].wait = 0]
    /\ call' = [call EXCEPT ![p].slept =
                    IF mf[p].site = "poll" THEN @ + mf[p].wait ELSE @]
    /\ UNCHANGED <<store, remote, nextId, procs>>

\* Falling off the loop without the throw: the call returns undefined.
GiveUpSilently == Ret("ok", NoJson, NoErr)

\* throw new Error("MetaApi sigue procesando. ...") after the loop.
GiveUp == Ret("err", NoJson, StillProcessing)

\* The loop ran out of passes.
MetaFetchGiveUp(p) ==
    /\ p \in procs
    /\ mf[p].state = "fetch"
    /\ ~LoopCond(mf[p].i, mf[p].maxRetries)
    /\ mf' = [mf EXCEPT ![p].state = "ret", ![p].ret = GiveUp]
    /\ call' = [call EXCEPT ![p].exhausted = @ \cup {mf[p].site}]
    /\ UNCHANGED <<store, remote, nextId, procs>>

----------------------------------------------------------------------------
\* What an invocation returns.

NoPayload == [tag |-> "none"]

Result(kind, code, message, payload) ==
    [kind |-> kind, code |-> code, message |-> message, payload |-> payload]

NoResult == Result("none", "", <<>>, NoPayload)

\* return <payload>
Success(payload) == Result("ok", "", <<>>, payload)

\* throw new HttpsError(code, message)
HttpsError(code, message) == Result("error", code, message, NoPayload)

\* An error that is no HttpsError leaves the handler: the callable framework
\* answers with the code internal and the message INTERNAL.
Unhandled(err) == HttpsError("internal", <<"INTERNAL">>)

MsgUnauthenticated == <<"Inicia", "sesion", "primero.">>
MsgInvalidArgument == <<"Faltan", "datos:", "servidor,", "login", "o", "password.">>
MsgNoAccount == <<"No", "tienes", "cuenta", "de", "broker", "conectada.">>
MsgRegistered == <<"Esta", "cuenta", "MT5", "ya", "esta", "registrada.">>
MsgLinked == <<"Cuenta", "ya", "vinculada">>
MsgConnected == <<"Cuenta", "conectada">>
MsgDeploying == <<"Cuenta", "creada.", "Desplegando,", "intenta", "en", "1-2", "min.">>

\* The fields connect writes: brokerServer, String(mtLogin), platform || "mt5".
LinkFields(server, login, platform) ==
    [brokerServer |-> server, mtLogin |-> login,
     platform |-> IF platform = NoField THEN "mt5" ELSE platform]

NoLink == [brokerServer |-> NoField, mtLogin |-> NoField, platform |-> NoField]

\* The locals of one invocation. pc is the await the handler is at. The
\* fields after err record what the invocation has done so far: slept (ms
\* slept inside the polling loop), polls and creates (status lookups of the
\* polling loop and create requests issued), createOk (the create request
\* succeeded), liveLink (the stored link pointed to an account that exists
\* upstream), exhausted (the call sites whose metaFetch ran out of retries), wrote
\* (it wrote the document), auth (request.auth was present), read (the read of
\* the document has been answered), sent (upstream requests issued).
NewCall(op, pc) ==
    [pc |-> pc, op |-> op, link |-> NoLink, existingId |-> NoId,
     accountId |-> NoId, i |-> 0, deployed |-> FALSE, result |-> NoResult,
     err |-> NoErr, slept |-> 0, polls |-> 0, creates |-> 0,
     createOk |-> FALSE, liveLink |-> FALSE, exhausted |-> {},
     wrote |-> FALSE, auth |-> TRUE, read |-> FALSE, sent |-> 0]

\* The locals of an invocation whose request carries auth or not.
Invocation(op, pc, auth) == [NewCall(op, pc) EXCEPT !.auth = auth]

\* The handler without the check.
RequireAuthNever(auth) == NoResult

\* if (!request.auth) throw new HttpsError("unauthenticated", ...)
RequireAuth(auth) ==
    IF ~auth THEN HttpsError("unauthenticated", MsgUnauthenticated) ELSE NoResult

\* The handler ends with this result.
Finish(c, result) == [c EXCEPT !.pc = "done", !.result = result]

\* No invocation of p is running.
Free(p) == p \in procs /\ call[p].pc \in {"idle", "done"} /\ mf[p].state = "idle"

\* An awaited metaFetch of p has ended.
Returned(p, pc) == p \in procs /\ call[p].pc = pc /\ mf[p].state = "ret"

\* requireAuth, then getAccountId's read is issued.
StartLinked(p, op) ==
    /\ Free(p)
    /\ \E auth \in BOOLEAN :
        call' = [call EXCEPT ![p] =
                    IF RequireAuth(auth) # NoResult
                    THEN Finish(Invocation(op, "done", auth), RequireAuth(auth))
                    ELSE Invocation(op, "id_get", auth)]
    /\ UNCHANGED <<store, remote, nextId, procs, mf>>

----------------------------------------------------------------------------
\* 1. connectBroker

\* String.prototype.includes, on sequences of words.
RECURSIVE Includes(_, _)
Includes(msg, phrase) ==
    IF Len(msg) < Len(phrase) THEN FALSE
    ELSE IF SubSeq(msg, 1, Len(phrase)) = phrase THEN TRUE
    ELSE Includes(Tail(msg), phrase)

\* The test written with startsWith.
IsAlreadyExistsAtStart(err) ==
    Len(err.message) >= 2 /\ SubSeq(err.message, 1, 2) = <<"already", "exists">>

\* err.message && err.message.includes("already exists")
IsAlreadyExists(err) ==
    err.message # <<>> /\ Includes(err.message, <<"already", "exists">>)

\* The catch of the create request.
CreateFailure(err) ==
    IF IsAlreadyExists(err)
    THEN HttpsError("already-exists", MsgRegistered)
    ELSE HttpsError("internal", <<"Error", "MetaApi:">> \o err.message)

\* The loop test written with <=, one round more.
PollCondInclusive(i) == i <= PollLimit

\* The loop test of the deploy polling: i < 30.
PollCond(i) == i < PollLimit

\* The test without its second disjunct.
IsDeployedStateOnly(st) == st.state = "DEPLOYED"

\* st.state === "DEPLOYED" || st.connectionStatus === "CONNECTED"
IsDeployed(st) == st.state = "DEPLOYED" \/ st.connectionStatus = "CONNECTED"

\* return { success: true, deployed, message: deployed ? ... : ... }
ConnectResult(deployed) ==
    Success([success |-> TRUE, deployed |-> deployed,
             message |-> IF deployed THEN MsgConnected ELSE MsgDeploying])

\* set(...) without { merge: true }: the document is replaced.
MergeReplacing(doc, id, link, email) ==
    Doc(TRUE, id, link.brokerServer, link.mtLogin, link.platform, email,
        TRUE, FALSE, FALSE)

\* set(..., { merge: true }): the named fields are written, the others kept.
Merge(doc, id, link, email) ==
    [doc EXCEPT !.exists = TRUE, !.metaApiAccountId = id,
                !.brokerServer = link.brokerServer, !.mtLogin = link.mtLogin,
                !.platform = link.platform, !.email = email,
                !.connectedAt = TRUE]

\* The head of the polling loop: sleep again, or leave the loop and return.
PollLoopHead(c) ==
    IF PollCond(c.i) THEN [c EXCEPT !.pc = "c_sleep"]
    ELSE Finish(c, ConnectResult(c.deployed))

\* requireAuth, the argument check, and the read of the document is issued.
ConnectBroker(p) ==
    /\ Free(p)
    /\ \E auth \in BOOLEAN, server \in {NoField, "Xyz-Live"},
          login \in {NoField, "12345"}, password \in {NoField, "p"},
          platform \in {NoField, "mt5"} :
        call' = [call EXCEPT ![p] =
                    IF RequireAuth(auth) # NoResult
                    THEN Finish(Invocation("connect", "done", auth), RequireAuth(auth))
                    ELSE IF server = NoField \/ login = NoField \/ password = NoField
                    THEN Finish(Invocation("connect", "done", auth),
                                HttpsError("invalid-argument", MsgInvalidArgument))
                    ELSE [Invocation("connect", "c_get", auth) EXCEPT
                            !.link = LinkFields(server, login, platform)]]
    /\ UNCHANGED <<store, remote, nextId, procs, mf>>

\* The document arrives: look the stored account up, or go on to create.
ConnectGotDoc(p) ==
    /\ p \in procs
    /\ call[p].pc = "c_get"
    /\ IF store.exists /\ store.metaApiAccountId # NoId
       THEN /\ call' = [call EXCEPT ![p].pc = "c_lookup", ![p].read = TRUE,
                                    ![p].existingId = store.metaApiAccountId,
                                    ![p].liveLink = store.metaApiAccountId \in remote]
            /\ mf' = [mf EXCEPT ![p] = MetaFetchCall("lookup", store.metaApiAccountId, 0)]
       ELSE /\ call' = [call EXCEPT ![p].pc = "c_create", ![p].read = TRUE]
            /\ mf' = [mf EXCEPT ![p] = MetaFetchCall("create", NoId, 0)]
    /\ UNCHANGED <<store, remote, nextId, procs>>

\* The lookup ended: return "already linked", or fall through to create.
ConnectAfterLookup(p) ==
    /\ Returned(p, "c_lookup")
    /\ IF mf[p].ret.kind = "ok"
       THEN /\ call' = [call EXCEPT ![p] =
                    Finish(call[p], Success([success |-> TRUE, message |-> MsgLinked,
                                             state |-> mf[p].ret.value.state]))]
            /\ mf' = [mf EXCEPT ![p] = MfIdle]
       ELSE /\ call' = [call EXCEPT ![p].pc = "c_create"]
            /\ mf' = [mf EXCEPT ![p] = MetaFetchCall("create", NoId, 0)]
    /\ UNCHANGED <<store, remote, nextId, procs>>

\* The identifier taken from a field the response does not have.
CreatedAccountIdMissing(account) == NoId

\* metaApiAccountId: account.id
CreatedAccountId(account) == account.id

\* The create request ended: fail, or issue the write of the link.
ConnectAfterCreate(p) ==
    /\ Returned(p, "c_create")
    /\ call' = [call EXCEPT ![p] =
                    IF mf[p].ret.kind = "err"
                    THEN Finish([call[p] EXCEPT !.err = mf[p].ret.err],
                                CreateFailure(mf[p].ret.err))
                    ELSE [call[p] EXCEPT !.pc = "c_set", !.createOk = TRUE,
                                         !.accountId = CreatedAccountId(mf[p].ret.value)]]
    /\ mf' = [mf EXCEPT ![p] = MfIdle]
    /\ UNCHANGED <<store, remote, nextId, procs>>

\* The write of the link ends: it took effect, or it was rejected and the
\* rejection leaves the handler.
ConnectSet(p) ==
    /\ p \in procs
    /\ call[p].pc = "c_set"
    /\ \E ok \in BOOLEAN :
        IF ok
        THEN /\ store' = Merge(store, call[p].accountId, call[p].link, "user@mail")
             /\ call' = [call EXCEPT ![p] =
                            PollLoopHead([call[p] EXCEPT !.wrote = TRUE,
                                                         !.deployed = FALSE, !.i = 0])]
        ELSE /\ store' = store
             /\ call' = [call EXCEPT ![p] =
                            Finish(call[p], Unhandled(Err("Error", <<"UNAVAILABLE">>, NoStatus)))]
    /\ UNCHANGED <<remote, nextId, procs, mf>>

\* The 2 s timer of the polling loop runs out: the status lookup goes out.
ConnectPollSleep(p) ==
    /\ p \in procs
    /\ call[p].pc = "c_sleep"
    /\ call' = [call EXCEPT ![p].pc = "c_poll", ![p].slept = @ + PollIntervalMs]
    /\ mf' = [mf EXCEPT ![p] = MetaFetchCall("poll", call[p].accountId, 0)]
    /\ UNCHANGED <<store, remote, nextId, procs>>

\* The status lookup ended: break when deployed, otherwise the next round.
ConnectAfterPoll(p) ==
    /\ Returned(p, "c_poll")
    /\ call' = [call EXCEPT ![p] =
                    IF mf[p].ret.kind = "ok" /\ IsDeployed(mf[p].ret.value)
                    THEN Finish([call[p] EXCEPT !.deployed = TRUE], ConnectResult(TRUE))
                    ELSE PollLoopHead([call[p] EXCEPT !.i = @ + 1])]
    /\ mf' = [mf EXCEPT ![p] = MfIdle]
    /\ UNCHANGED <<store, remote, nextId, procs>>

----------------------------------------------------------------------------
\* 2. getUserStatus

GetUserStatus(p) ==
    /\ Free(p)
    /\ \E auth \in BOOLEAN :
        call' = [call EXCEPT ![p] =
                    IF RequireAuth(auth) # NoResult
                    THEN Finish(Invocation("status", "done", auth), RequireAuth(auth))
                    ELSE Invocation("status", "s_get", auth)]
    /\ UNCHANGED <<store, remote, nextId, procs, mf>>

\* if (!doc.exists || !doc.data().metaApiAccountId) return { connected: false };
\* return { connected: true, brokerServer, mtLogin, platform }
StatusOf(doc) ==
    IF ~doc.exists \/ doc.metaApiAccountId = NoId
    THEN Success([connected |-> FALSE])
    ELSE Success([connected |-> TRUE, brokerServer |-> doc.brokerServer,
                  mtLogin |-> doc.mtLogin, platform |-> doc.platform])

\* The document arrives: the status is what it says.
UserStatusGotDoc(p) ==
    /\ p \in procs
    /\ call[p].pc = "s_get"
    /\ call' = [call EXCEPT ![p] =
                    Finish([call[p] EXCEPT !.read = TRUE], StatusOf(store))]
    /\ UNCHANGED <<store, remote, nextId, procs, mf>>

----------------------------------------------------------------------------
\* getAccountId, shared by operations 3 to 6.

\* The first request of each operation that needs a linked account.
FirstSite(op) ==
    CASE op = "info" -> "info"
      [] op = "metrics" -> "metrics"
      [] op = "trades" -> "trades"
      [] op = "growth" -> "growth"

\* The document arrives: not-found without an identifier, otherwise the
\* operation's first request is set up (with the default retries).
GetAccountId(p) ==
    /\ p \in procs
    /\ call[p].pc = "id_get"
    /\ IF ~store.exists \/ store.metaApiAccountId = NoId
       THEN /\ call' = [call EXCEPT ![p] =
                            Finish([call[p] EXCEPT !.read = TRUE],
                                   HttpsError("not-found", MsgNoAccount))]
            /\ mf' = mf
       ELSE /\ call' = [call EXCEPT ![p].pc = "fetch_1", ![p].read = TRUE,
                                    ![p].accountId = store.metaApiAccountId]
            /\ mf' = [mf EXCEPT ![p] =
                        MetaFetchCall(FirstSite(call[p].op), store.metaApiAccountId, Undefined)]
    /\ UNCHANGED <<store, remote, nextId, procs>>

----------------------------------------------------------------------------
\* 3. getAccountInfo

GetAccountInfo(p) == StartLinked(p, "info")

\* return await metaFetch(...): the body as it is, or the error leaves the
\* handler.
AccountInfoAfterFetch(p) ==
    /\ Returned(p, "fetch_1")
    /\ call[p].op = "info"
    /\ call' = [call EXCEPT ![p] =
                    Finish(call[p],
                        IF mf[p].ret.kind = "ok"
                        THEN Success([info |-> mf[p].ret.value])
                        ELSE Unhandled(mf[p].ret.err))]
    /\ mf' = [mf EXCEPT ![p] = MfIdle]
    /\ UNCHANGED <<store, remote, nextId, procs>>

----------------------------------------------------------------------------
\* 4. getMetrics

GetMetrics(p) == StartLinked(p, "metrics")

\* { ok: false, metrics: null, source: "none", reason: "metastats_enabling" }
MetricsEnabling ==
    Success([ok |-> FALSE, metrics |-> "null", source |-> "none",
             reason |-> "metastats_enabling"])

\* The test on any error that carries a status.
MetaStatsDisabledAnyStatus(err) == err.status # NoStatus

\* if (err.status === 403)
MetaStatsDisabled(err) == err.status = 403

\* The metrics request ended: the metrics, the enable request on 403, or an
\* internal error with the message.
MetricsAfterFetch(p) ==
    /\ Returned(p, "fetch_1")
    /\ call[p].op = "metrics"
    /\ IF mf[p].ret.kind = "ok"
       THEN /\ call' = [call EXCEPT ![p] =
                    Finish(call[p],
                        Success([ok |-> TRUE,
                                 metrics |-> IF mf[p].ret.value.shape = "wrapped"
                                             THEN "res.metrics" ELSE "res",
                                 source |-> "metastats"]))]
            /\ mf' = [mf EXCEPT ![p] = MfIdle]
       ELSE IF MetaStatsDisabled(mf[p].ret.err)
       THEN /\ call' = [call EXCEPT ![p].pc = "m_enable"]
            /\ mf' = [mf EXCEPT ![p] = MetaFetchCall("enable", call[p].accountId, 0)]
       ELSE /\ call' = [call EXCEPT ![p] =
                    Finish(call[p], HttpsError("internal", mf[p].ret.err.message))]
            /\ mf' = [mf EXCEPT ![p] = MfIdle]
    /\ UNCHANGED <<store, remote, nextId, procs>>

\* The handler noting in the document that the enabling was asked for.
MetricsAfterEnableNoted(p) ==
    /\ Returned(p, "m_enable")
    /\ call' = [call EXCEPT ![p] = Finish(call[p], MetricsEnabling)]
    /\ mf' = [mf EXCEPT ![p] = MfIdle]
    /\ store' = [store EXCEPT !.profile = ~@]
    /\ UNCHANGED <<remote, nextId, procs>>

\* The enable request ended, however: the "enabling" answer.
MetricsAfterEnable(p) ==
    /\ Returned(p, "m_enable")
    /\ call' = [call EXCEPT ![p] = Finish(call[p], MetricsEnabling)]
    /\ mf' = [mf EXCEPT ![p] = MfIdle]
    /\ UNCHANGED <<store, remote, nextId, procs>>

----------------------------------------------------------------------------
\* 5. getTrades

GetTrades(p) == StartLinked(p, "trades")

\* res.trades || (Array.isArray(res) ? res : [])
TradesOf(res) ==
    CASE res.shape = "wrapped" -> "res.trades"
      [] res.shape = "array" -> "res"
      [] OTHER -> "[]"

\* Array.isArray(res) ? res : (res.deals || [])
DealsOf(res) ==
    CASE res.shape = "array" -> "res"
      [] res.shape = "wrapped" -> "res.deals"
      [] OTHER -> "[]"

\* The MetaStats request ended: its trades, or the Client API request.
TradesAfterPrimary(p) ==
    /\ Returned(p, "fetch_1")
    /\ call[p].op = "trades"
    /\ IF mf[p].ret.kind = "ok"
       THEN /\ call' = [call EXCEPT ![p] =
                    Finish(call[p], Success([trades |-> TradesOf(mf[p].ret.value),
                                             source |-> "metastats"]))]
            /\ mf' = [mf EXCEPT ![p] = MfIdle]
       ELSE /\ call' = [call EXCEPT ![p].pc = "t_fallback"]
            /\ mf' = [mf EXCEPT ![p] = MetaFetchCall("deals", call[p].accountId, Undefined)]
    /\ UNCHANGED <<store, remote, nextId, procs>>

\* The second catch returning an empty list.
TradesFailureEmpty(err) == Success([trades |-> "[]", source |-> "client"])

\* throw new HttpsError("internal", err.message)
TradesFailure(err) == HttpsError("internal", err.message)

\* The Client API request ended: its deals, or an internal error.
TradesAfterFallback(p) ==
    /\ Returned(p, "t_fallback")
    /\ call' = [call EXCEPT ![p] =
                    Finish(call[p],
                        IF mf[p].ret.kind = "ok"
                        THEN Success([trades |-> DealsOf(mf[p].ret.value),
                                      source |-> "client"])
                        ELSE TradesFailure(mf[p].ret.err))]
    /\ mf' = [mf EXCEPT ![p] = MfIdle]
    /\ UNCHANGED <<store, remote, nextId, procs>>

----------------------------------------------------------------------------
\* 6. getDailyGrowth

GetDailyGrowth(p) == StartLinked(p, "growth")

\* The catch rethrowing as the other operations do.
GrowthOnErrorThrow(err) == HttpsError("internal", err.message)

\* catch (err) { return { data: [] }; }
GrowthOnError(err) == Success([data |-> "[]"])

\* res.dailyGrowth || (Array.isArray(res) ? res : []), and [] on any error.
DailyGrowthAfterFetch(p) ==
    /\ Returned(p, "fetch_1")
    /\ call[p].op = "growth"
    /\ call' = [call EXCEPT ![p] =
                    Finish(call[p],
                        IF mf[p].ret.kind = "ok"
                        THEN Success([data |-> CASE mf[p].ret.value.shape = "wrapped" -> "res.dailyGrowth"
                                                 [] mf[p].ret.value.shape = "array" -> "res"
                                                 [] OTHER -> "[]"])
                        ELSE GrowthOnError(mf[p].ret.err))]
    /\ mf' = [mf EXCEPT ![p] = MfIdle]
    /\ UNCHANGED <<store, remote, nextId, procs>>

----------------------------------------------------------------------------
\* 7. disconnectBroker

\* update({ metaApiAccountId: delete(), brokerServer: delete(),
\*          mtLogin: delete(), disconnectedAt: serverTimestamp() })
Unlink(doc) ==
    [doc EXCEPT !.metaApiAccountId = NoId, !.brokerServer = NoField,
                !.mtLogin = NoField, !.disconnectedAt = TRUE]

DisconnectBroker(p) ==
    /\ Free(p)
    /\ \E auth \in BOOLEAN :
        call' = [call EXCEPT ![p] =
                    IF RequireAuth(auth) # NoResult
                    THEN Finish(Invocation("disconnect", "done", auth), RequireAuth(auth))
                    ELSE Invocation("disconnect", "d_get", auth)]
    /\ UNCHANGED <<store, remote, nextId, procs, mf>>

\* The test on the document alone.
NoStoredLinkMissingDoc(doc) == ~doc.exists

\* if (!doc.exists || !doc.data().metaApiAccountId) return { ok: true };
NoStoredLink(doc) == ~doc.exists \/ doc.metaApiAccountId = NoId

\* The document arrives: nothing to do without a link, otherwise the delete
\* request is set up.
DisconnectGotDoc(p) ==
    /\ p \in procs
    /\ call[p].pc = "d_get"
    /\ IF NoStoredLink(store)
       THEN /\ call' = [call EXCEPT ![p] =
                            Finish([call[p] EXCEPT !.read = TRUE], Success([ok |-> TRUE]))]
            /\ mf' = mf
       ELSE /\ call' = [call EXCEPT ![p].pc = "d_delete", ![p].read = TRUE,
                                    ![p].accountId = store.metaApiAccountId]
            /\ mf' = [mf EXCEPT ![p] = MetaFetchCall("delete", store.metaApiAccountId, 0)]
    /\ UNCHANGED <<store, remote, nextId, procs>>

\* The delete request ended, however: the update of the document is issued.
DisconnectAfterDelete(p) ==
    /\ Returned(p, "d_delete")
    /\ call' = [call EXCEPT ![p].pc = "d_update"]
    /\ mf' = [mf EXCEPT ![p] = MfIdle]
    /\ UNCHANGED <<store, remote, nextId, procs>>

\* The update ends: it took effect, or it was rejected and the rejection
\* leaves the handler.
DisconnectUpdate(p) ==
    /\ p \in procs
    /\ call[p].pc = "d_update"
    /\ \E ok \in BOOLEAN :
        IF ok
        THEN /\ store' = Unlink(store)
             /\ call' = [call EXCEPT ![p] =
                            Finish([call[p] EXCEPT !.wrote = TRUE], Success([ok |-> TRUE]))]
        ELSE /\ store' = store
             /\ call' = [call EXCEPT ![p] =
                            Finish(call[p], Unhandled(Err("Error", <<"UNAVAILABLE">>, NoStatus)))]
    /\ UNCHANGED <<remote, nextId, procs, mf>>

----------------------------------------------------------------------------
\* The system: one invocation at a time, any operation after any other.

Init ==
    /\ store \in {NoDoc, ProfileDoc}
    /\ remote = {}
    /\ nextId = 1
    /\ procs = {1}
    /\ call = [p \in Procs |-> NewCall("none", "idle")]
    /\ mf = [p \in Procs |-> MfIdle]

Next ==
    \E p \in Procs :
        \/ MetaFetchSend(p)
        \/ MetaFetchSleep(p)
        \/ MetaFetchGiveUp(p)
        \/ ConnectBroker(p)
        \/ ConnectGotDoc(p)
        \/ ConnectAfterLookup(p)
        \/ ConnectAfterCreate(p)
        \/ ConnectSet(p)
        \/ ConnectPollSleep(p)
        \/ ConnectAfterPoll(p)
        \/ GetUserStatus(p)
        \/ UserStatusGotDoc(p)
        \/ GetAccountId(p)
        \/ GetAccountInfo(p)
        \/ AccountInfoAfterFetch(p)
        \/ GetMetrics(p)
        \/ MetricsAfterFetch(p)
        \/ MetricsAfterEnable(p)
        \/ GetTrades(p)
        \/ TradesAfterPrimary(p)
        \/ TradesAfterFallback(p)
        \/ GetDailyGrowth(p)
        \/ DailyGrowthAfterFetch(p)
        \/ DisconnectBroker(p)
        \/ DisconnectGotDoc(p)
        \/ DisconnectAfterDelete(p)
        \/ DisconnectUpdate(p)

Spec == Init /\ [][Next]_vars

----------------------------------------------------------------------------
\* metaFetch on its own: called with any opts.retries, against any responses.

RetriesArgs == {Undefined} \cup (0 .. MaxRetriesArg)

\* metaFetch(url, token, opts) is entered.
MetaFetchEnter(p) ==
    /\ Free(p)
    /\ \E retries \in RetriesArgs :
        mf' = [mf EXCEPT ![p] = MetaFetchCall("direct", NoId, retries)]
    /\ call' = [call EXCEPT ![p] = NewCall("direct", "direct")]
    /\ UNCHANGED <<store, remote, nextId, procs>>

\* Its caller takes the result.
MetaFetchLeave(p) ==
    /\ Returned(p, "direct")
    /\ mf' = [mf EXCEPT ![p] = MfIdle]
    /\ call' = [call EXCEPT ![p].pc = "done"]
    /\ UNCHANGED <<store, remote, nextId, procs>>

NextFetch ==
    \E p \in Procs :
        \/ MetaFetchEnter(p)
        \/ MetaFetchSend(p)
        \/ MetaFetchSleep(p)
        \/ MetaFetchGiveUp(p)
        \/ MetaFetchLeave(p)

SpecFetch == Init /\ [][NextFetch]_vars

----------------------------------------------------------------------------
\* Properties of metaFetch (checked under SpecFetch).

\* The retry budget the caller asked for: opts.retries, 5 when none is given.
Budget(p) == IF mf[p].retries = Undefined THEN 5 ELSE mf[p].retries

\* The call of p has ended (by a return or a throw).
Ended(p) == mf[p].state = "ret"

\* C1 as stated: every 202 response is followed by a further request of the
\* same call, and one call issues at most maxRetries+1 requests.
C1_Every202Retried ==
    \A p \in Procs :
        /\ mf[p].nreq <= Budget(p) + 1
        /\ Ended(p) /\ mf[p].last202At # 0 => mf[p].nreq > mf[p].last202At

\* C1 as amended: one call issues at most maxRetries+1 requests; a 202 that
\* answers one of the first maxRetries requests is followed by a further
\* request, and a 202 that answers request number maxRetries+1 is followed
\* by none.
C1_202RetriedWithinBudget ==
    \A p \in Procs :
        /\ mf[p].nreq <= Budget(p) + 1
        /\ Ended(p) /\ mf[p].last202At # 0 /\ mf[p].last202At <= Budget(p)
            => mf[p].nreq > mf[p].last202At
        /\ Ended(p) /\ mf[p].last202At = Budget(p) + 1
            => mf[p].nreq = mf[p].last202At

\* A call with retries 2 whose second request got 202 and whose third ended it.
C1_Witness ==
    \E p \in Procs :
        /\ Ended(p) /\ mf[p].retries = 2
        /\ mf[p].last202At = 2 /\ mf[p].nreq = 3

\* The call of p ran out of retries: it ended with the "sigue procesando"
\* error.
GaveUp(p) == Ended(p) /\ mf[p].ret.kind = "err" /\ mf[p].ret.err.message = MsgStillProcessing

\* C2 as stated: a call that gets 202 every time gives up after at most
\* maxRetries requests, the first included.
C2_AtMostMaxRetries ==
    \A p \in Procs : GaveUp(p) => mf[p].nreq <= Budget(p)

\* C2 as amended: a call that gets 202 every time gives up after exactly
\* maxRetries+1 requests, the first included (6 with the default of 5), each
\* of them answered with 202.
C2_ExactlyMaxRetriesPlusOne ==
    \A p \in Procs :
        GaveUp(p) => /\ mf[p].nreq = Budget(p) + 1
                     /\ mf[p].last202At = mf[p].nreq
                     /\ mf[p].i = mf[p].nreq

\* A call with the default retries that gave up after 6 requests.
C2_Witness ==
    \E p \in Procs : GaveUp(p) /\ mf[p].retries = Undefined /\ mf[p].nreq = 6

\* The timer of a 202 is running: how long it runs is mf[p].wait.
Sleeping(p) == mf[p].state = "sleep"

\* C3: every sleep after a 202 lasts at most 15 s, whatever the retry-after
\* header holds, and exactly 5 s when the header is absent.
C3_SleepAtMost15s ==
    \A p \in Procs :
        Sleeping(p) => /\ mf[p].wait >= 0
                       /\ mf[p].wait <= 15000
                       /\ ~mf[p].res.hint.present => mf[p].wait = 5000

\* A sleep after a 202 whose retry-after is 99: it lasts 15 s.
C3_Witness ==
    \E p \in Procs :
        /\ Sleeping(p)
        /\ mf[p].res.hint = [present |-> TRUE, value |-> <<"9", "9">>]
        /\ mf[p].wait = 15000

\* The last response of p's call is an HTTP error: not 202 and not 2xx.
ErrorResponse(p) ==
    /\ mf[p].res.kind = "http"
    /\ mf[p].res.status # 202
    /\ ~(mf[p].res.status \in 200 .. 299)

\* C4: an error response ends the call at once with an error that carries
\* the response's status and its message (the body's message, or
\* "HTTP <status>" when the body has none), and so does a network failure,
\* with the failure itself; while a call goes on, every response it has had
\* was a 202.
C4_ErrorEndsCallWithStatus ==
    \A p \in Procs :
        /\ ErrorResponse(p) =>
            /\ Ended(p)
            /\ mf[p].ret.kind = "err"
            /\ mf[p].ret.err.status = mf[p].res.status
            /\ mf[p].res.parses /\ mf[p].res.message # <<>>
                => mf[p].ret.err.message = mf[p].res.message
            /\ ~mf[p].res.parses \/ mf[p].res.message = <<>>
                => mf[p].ret.err.message = <<"HTTP", ToString(mf[p].res.status)>>
        /\ mf[p].res.kind = "net" =>
            /\ Ended(p)
            /\ mf[p].ret.kind = "err"
            /\ mf[p].ret.err.name = "TypeError"
        /\ mf[p].state \in {"fetch", "sleep"} => mf[p].last202At = mf[p].nreq

\* A call whose second request got a 500 without a JSON body: it ended with
\* the status 500 and the message "HTTP 500".
C4_Witness ==
    \E p \in Procs :
        /\ Ended(p) /\ mf[p].nreq = 2
        /\ mf[p].res.status = 500 /\ ~mf[p].res.parses
        /\ mf[p].ret.err.status = 500
        /\ mf[p].ret.err.message = <<"HTTP", "500">>

----------------------------------------------------------------------------
\* Properties of the operations (checked under Spec).

\* The invocation of p has ended, and it was of this operation.
Done(p, op) == call[p].pc = "done" /\ call[p].op = op

\* The invocation of p has ended with a returned payload.
Succeeded(p) == call[p].pc = "done" /\ call[p].result.kind = "ok"

\* The invocation of p has ended with an error.
Failed(p) == call[p].pc = "done" /\ call[p].result.kind = "error"

\* A metaFetch that ran out of retries ends with an error that has no status
\* (every upstream error has one) and is no TypeError (a transport error is
\* one), and with no value.
GiveUpIsDistinctError(p) ==
    Ended(p) /\ mf[p].nreq = Budget(p) + 1 /\ mf[p].last202At = mf[p].nreq
        => /\ mf[p].ret.kind = "err"
           /\ mf[p].ret.value = NoJson
           /\ mf[p].ret.err.status = NoStatus
           /\ mf[p].ret.err.name = "Error"
           /\ mf[p].ret.err.message = MsgStillProcessing

\* C5 as stated: a metaFetch whose retries are used up by 202 responses ends
\* with a distinct error and no result, and no invocation in which that
\* happened returns success.
C5_GiveUpNeverSuccess ==
    \A p \in Procs :
        /\ GiveUpIsDistinctError(p)
        /\ call[p].pc = "done" /\ call[p].exhausted # {} => Failed(p)

\* The call sites whose errors reach the caller of the operation.
SurfacingSites == {"create", "info", "metrics", "deals"}

\* C5 as amended: a metaFetch whose retries are used up by 202 responses ends
\* with a distinct error and no result. The invocation fails when that
\* happened at connect's create request, at the account-information request,
\* at the metrics request or at the history-deals request; daily growth
\* swallows it like any other failure and returns success with empty data.
C5_GiveUpSurfacesWhereNotSwallowed ==
    \A p \in Procs :
        /\ GiveUpIsDistinctError(p)
        /\ call[p].pc = "done" /\ call[p].exhausted \cap SurfacingSites # {}
            => Failed(p) /\ call[p].result.code = "internal"
        /\ Done(p, "growth") /\ "growth" \in call[p].exhausted
            => Succeeded(p) /\ call[p].result.payload = [data |-> "[]"]

\* A daily-growth invocation whose request got 202 six times: it returned
\* success.
C5_Witness ==
    \E p \in Procs :
        Done(p, "growth") /\ "growth" \in call[p].exhausted /\ Succeeded(p)

\* C6: a connect that finds the stored link pointing to an account that
\* exists upstream returns success, issues no create request and does not
\* write the document.
C6_ConnectIdempotent ==
    \A p \in Procs :
        Done(p, "connect") /\ call[p].liveLink
            => /\ Succeeded(p)
               /\ call[p].creates = 0
               /\ ~call[p].wrote

\* The polling loop of p's connect is running.
InPollLoop(p) == call[p].pc \in {"c_sleep", "c_poll"}

\* How far a round of the loop has got: the 2 s timer, the lookup about to go
\* out, metaFetch's timer after a 202, metaFetch back at its loop test, the
\* lookup ended.
RoundStage(p) ==
    CASE call[p].pc = "c_sleep" -> 0
      [] mf[p].state = "fetch" /\ mf[p].i = 0 -> 1
      [] mf[p].state = "sleep" -> 2
      [] mf[p].state = "fetch" -> 3
      [] OTHER -> 4

\* The steps the polling loop has left at most: 5 per round not yet completed.
StepsLeft(p) == 5 * (30 - call[p].i) - RoundStage(p)

\* C7: the deploy polling issues at most 30 status lookups and ends: each
\* round issues one lookup, a round starts only while fewer than 30 have been
\* completed, the call that leaves the loop returns, deployed or after
\* exactly 30 lookups, and every step of an invocation inside the loop either
\* returns from the call or lowers the number of steps the loop has left.
C7_PollingBounded ==
    /\ [](\A p \in Procs :
            /\ call[p].polls <= 30
            /\ call[p].pc = "c_sleep" => call[p].i < 30 /\ call[p].polls = call[p].i
            /\ call[p].pc = "c_poll" =>
                /\ call[p].i < 30
                /\ call[p].polls = call[p].i + (IF mf[p].nreq > 0 THEN 1 ELSE 0)
                /\ mf[p].nreq <= 1
            /\ InPollLoop(p) => StepsLeft(p) > 0
            /\ Done(p, "connect") /\ call[p].wrote =>
                /\ Succeeded(p)
                /\ call[p].deployed \/ call[p].polls = 30
                /\ call[p].polls = IF call[p].deployed THEN call[p].i + 1 ELSE call[p].i)
    /\ [][\A p \in Procs :
            InPollLoop(p) =>
                \/ call'[p] = call[p] /\ mf'[p] = mf[p]
                \/ Done(p, "connect")' /\ Succeeded(p)'
                \/ InPollLoop(p)' /\ StepsLeft(p)' < StepsLeft(p)]_vars

\* A connect whose 30 lookups were all answered with 202 and a retry-after
\* of 15 s or more: it returned, not deployed.
C7_Witness ==
    \E p \in Procs :
        /\ Done(p, "connect") /\ Succeeded(p) /\ ~call[p].deployed
        /\ call[p].polls = 30
        /\ call[p].slept = 30 * (2000 + 15000)

\* C8: the sleeps inside the polling loop, those of metaFetch after a 202
\* included, never add up to more than 60 s (30 waits of 2 s).
C8_PollingSleepsAtMost60s ==
    \A p \in Procs : call[p].slept <= 30 * 2000

\* C9: a connect whose create request succeeded never fails: it returns
\* success: true, a boolean deployed and a message.
C9_NoFailureAfterCreate ==
    \A p \in Procs :
        Done(p, "connect") /\ call[p].createOk
            => /\ Succeeded(p)
               /\ call[p].result.payload.success = TRUE
               /\ call[p].result.payload.deployed \in BOOLEAN
               /\ call[p].result.payload.message # <<>>

\* The upstream messages that say the account already exists.
SaysAlreadyExists(message) == message = MsgAlreadyExists

\* C10: a connect whose create request failed fails with already-exists
\* exactly when the upstream failure says the account already exists, and
\* otherwise with internal and the upstream message (a create answered with
\* 202 included); it writes no link and issues no status lookup.
C10_CreateFailure ==
    \A p \in Procs :
        Done(p, "connect") /\ call[p].creates > 0 /\ ~call[p].createOk
            => /\ Failed(p)
               /\ call[p].err.name # "none"
               /\ call[p].result.code = "already-exists"
                    <=> SaysAlreadyExists(call[p].err.message)
               /\ ~SaysAlreadyExists(call[p].err.message)
                    => /\ call[p].result.code = "internal"
                       /\ call[p].result.message
                            = <<"Error", "MetaApi:">> \o call[p].err.message
               /\ "create" \in call[p].exhausted
                    => call[p].result.message
                            = <<"Error", "MetaApi:">> \o MsgStillProcessing
               /\ ~call[p].wrote
               /\ call[p].polls = 0

\* A connect whose create request was answered with the message "Account
\* already exists": it failed with already-exists.
C10_Witness ==
    \E p \in Procs :
        /\ Done(p, "connect") /\ call[p].creates = 1 /\ ~call[p].createOk
        /\ call[p].err.message = MsgAlreadyExists
        /\ call[p].result.code = "already-exists"

----------------------------------------------------------------------------
\* getMetrics

\* p takes a step of its handler (not of a metaFetch it awaits).
HandlerStep(p) == call'[p].pc # call[p].pc

\* The awaited metaFetch of p, at the await pc of operation op, has ended
\* with an error.
Raised(p, op, pc) ==
    call[p].op = op /\ call[p].pc = pc /\ Ended(p) /\ mf[p].ret.kind = "err"

\* C11: when the metrics request fails with status 403, exactly one enable
\* request is issued (one attempt, no retry), its outcome is ignored, and
\* the answer is {ok: false, metrics: null, source: "none", reason:
\* "metastats_enabling"}; after any other failure of the metrics request no
\* enable request is issued and the operation fails with that failure's
\* message.
C11_MetricsEnableOn403 ==
    /\ [](\A p \in Procs :
            call[p].pc = "m_enable"
                => /\ mf[p].site = "enable" /\ mf[p].maxRetries = 0
                   /\ mf[p].nreq <= 1
                   /\ Ended(p) => mf[p].nreq = 1)
    /\ [][\A p \in Procs :
            /\ Raised(p, "metrics", "fetch_1") /\ HandlerStep(p)
                => IF mf[p].ret.err.status = 403
                   THEN /\ call'[p].pc = "m_enable"
                        /\ mf'[p].state = "fetch" /\ mf'[p].nreq = 0
                   ELSE /\ Failed(p)'
                        /\ call'[p].result
                            = HttpsError("internal", mf[p].ret.err.message)
                        /\ call'[p].sent = call[p].sent
                        /\ mf'[p].state = "idle"
            /\ call[p].pc = "m_enable" /\ HandlerStep(p)
                => /\ Ended(p)
                   /\ Done(p, "metrics")' /\ Succeeded(p)'
                   /\ call'[p].result.payload
                        = [ok |-> FALSE, metrics |-> "null", source |-> "none",
                           reason |-> "metastats_enabling"]
                   /\ call'[p].sent = call[p].sent]_vars

\* A metrics call answered 403 whose enable request was answered 202: it
\* returned the "enabling" answer all the same.
C11_Witness ==
    \E p \in Procs :
        /\ Done(p, "metrics") /\ "enable" \in call[p].exhausted
        /\ call[p].result.payload.reason = "metastats_enabling"

----------------------------------------------------------------------------
\* getTrades

----------------------------------------------------------------------------
\* getDailyGrowth

\* C13: getDailyGrowth of an authenticated user with a stored account never
\* fails: whenever its request fails (an error status, the retries used up,
\* a transport error) it returns exactly {data: []}.
C13_GrowthNeverFails ==
    /\ [](\A p \in Procs :
            Done(p, "growth") /\ call[p].auth /\ call[p].accountId # NoId
                => Succeeded(p))
    /\ [][\A p \in Procs :
            Raised(p, "growth", "fetch_1") /\ HandlerStep(p)
                => /\ Done(p, "growth")' /\ Succeeded(p)'
                   /\ call'[p].result.payload = [data |-> "[]"]
                   /\ call'[p].sent = call[p].sent]_vars

\* A growth call whose request was answered 202 six times: it returned
\* {data: []}.
C13_Witness ==
    \E p \in Procs :
        /\ Done(p, "growth") /\ call[p].exhausted = {"growth"}
        /\ call[p].sent = 6
        /\ call[p].result.payload = [data |-> "[]"]

----------------------------------------------------------------------------
\* disconnectBroker

\* The document holds no link: it is missing or has no account identifier.
Unlinked(doc) == ~doc.exists \/ doc.metaApiAccountId = NoId

\* C14: a disconnect of an authenticated user whose document is missing or
\* has no account identifier returns {ok: true}, issues no upstream request
\* and leaves the store as it is; a disconnect that returned leaves no link,
\* so that the next one changes nothing.
C14_DisconnectWithoutLink ==
    /\ [](\A p \in Procs :
            /\ Done(p, "disconnect") /\ call[p].read /\ call[p].accountId = NoId
                => /\ Succeeded(p) /\ call[p].result.payload = [ok |-> TRUE]
                   /\ call[p].sent = 0 /\ ~call[p].wrote
            /\ Done(p, "disconnect") /\ Succeeded(p) => Unlinked(store))
    /\ [][\A p \in Procs :
            call[p].pc = "d_get" /\ Unlinked(store) /\ HandlerStep(p)
                => /\ Done(p, "disconnect")' /\ Succeeded(p)'
                   /\ call'[p].result.payload = [ok |-> TRUE]
                   /\ call'[p].accountId = NoId
                   /\ store' = store /\ remote' = remote
                   /\ mf'[p] = mf[p] /\ mf[p].state = "idle"]_vars

\* A second disconnect, after one that removed the link: it returned
\* {ok: true} without a request and without a write.
C14_Witness ==
    \E p \in Procs :
        /\ Done(p, "disconnect") /\ Succeeded(p) /\ call[p].read
        /\ call[p].sent = 0 /\ ~call[p].wrote
        /\ store.exists /\ store.disconnectedAt

\* C15: after a disconnect of a user with a stored link has returned,
\* whatever the delete request did, the document exists, holds no account
\* identifier, server, login or platform, and has its disconnect time.
C15_DisconnectRemovesLinkFields ==
    \A p \in Procs :
        Done(p, "disconnect") /\ Succeeded(p) /\ call[p].accountId # NoId
            => /\ store.exists
               /\ store.metaApiAccountId = NoId
               /\ store.brokerServer = NoField
               /\ store.mtLogin = NoField
               /\ store.platform = NoField
               /\ store.disconnectedAt
               /\ StatusOf(store) = Success([connected |-> FALSE])

----------------------------------------------------------------------------
\* requireAuth and getAccountId

\* The operations of the handlers, and those that start with getAccountId.
Operations == {"connect", "status", "info", "metrics", "trades", "growth", "disconnect"}
LinkedOperations == {"info", "metrics", "trades", "growth"}

\* The invocation of p has had no effect outside itself: no read and no
\* write of the document, no upstream request.
NoEffect(p) ==
    /\ ~call[p].read /\ ~call[p].wrote
    /\ call[p].sent = 0 /\ call[p].polls = 0 /\ call[p].creates = 0
    /\ mf[p].state = "idle"

\* C16: each of the seven operations, called without auth, fails with
\* unauthenticated before any read or write of the store and any upstream
\* request; getAccountInfo, getMetrics, getTrades and getDailyGrowth, called
\* by an authenticated user without a stored account identifier, fail with
\* not-found without an upstream request.
C16_AuthAndLinkChecks ==
    /\ [](\A p \in Procs :
            /\ call[p].op \in Operations /\ ~call[p].auth
                => /\ Failed(p) /\ call[p].result.code = "unauthenticated"
                   /\ NoEffect(p)
            /\ call[p].op \in LinkedOperations /\ call[p].auth
               /\ call[p].pc = "done" /\ call[p].accountId = NoId
                => /\ Failed(p) /\ call[p].result.code = "not-found"
                   /\ call[p].sent = 0 /\ ~call[p].wrote
                   /\ mf[p].state = "idle")
    /\ [][\A p \in Procs :
            /\ call[p].pc = "id_get" /\ Unlinked(store) /\ HandlerStep(p)
                => /\ Failed(p)' /\ call'[p].result.code = "not-found"
                   /\ mf'[p] = mf[p] /\ remote' = remote
            /\ call'[p] # call[p] /\ ~call'[p].auth
                => /\ store' = store /\ remote' = remote /\ mf' = mf
                   /\ Failed(p)']_vars

\* A getTrades call without auth has failed with unauthenticated.
C16_Witness ==
    \E p \in Procs :
        /\ Done(p, "trades") /\ ~call[p].auth
        /\ call[p].result.code = "unauthenticated"

\* A getMetrics call of an authenticated user without a stored account has
\* failed with not-found.
C16_WitnessNotFound ==
    \E p \in Procs :
        /\ Done(p, "metrics") /\ call[p].auth /\ call[p].read
        /\ call[p].result.code = "not-found"

----------------------------------------------------------------------------
\* The deploy polling of connectBroker

\* The status lookup of p has ended and reports the account deployed or
\* connected.
ReportsDeployed(p) ==
    /\ Ended(p) /\ mf[p].ret.kind = "ok"
    /\ \/ mf[p].ret.value.state = "DEPLOYED"
       \/ mf[p].ret.value.connectionStatus = "CONNECTED"

\* C18: in the deploy polling a status lookup that fails does not end the
\* loop and counts as "not yet"; the loop ends at the first lookup that
\* reports DEPLOYED or CONNECTED, with no lookup after it; the deployed flag
\* returned is true exactly when a lookup of this call reported one of them.
C18_PollingOutcome ==
    /\ [](\A p \in Procs :
            /\ InPollLoop(p) => ~call[p].deployed
            /\ Done(p, "connect") /\ call[p].wrote
                => /\ Succeeded(p)
                   /\ call[p].result.payload.deployed = call[p].deployed
                   /\ call[p].deployed => call[p].polls >= 1
                   /\ ~call[p].deployed => call[p].polls = PollLimit)
    /\ [][\A p \in Procs :
            call[p].pc = "c_poll" /\ HandlerStep(p)
                => /\ Ended(p)
                   /\ call'[p].polls = call[p].polls
                   /\ IF ReportsDeployed(p)
                      THEN /\ Done(p, "connect")' /\ Succeeded(p)'
                           /\ call'[p].deployed
                           /\ call'[p].result.payload.deployed = TRUE
                      ELSE /\ ~call'[p].deployed
                           /\ call'[p].i = call[p].i + 1
                           /\ \/ call'[p].pc = "c_sleep"
                              \/ /\ call'[p].i = PollLimit
                                 /\ Done(p, "connect")' /\ Succeeded(p)'
                                 /\ call'[p].result.payload.deployed = FALSE]_vars

\* A connect whose first status lookup ran out of retries and whose second
\* reported the account: it returned deployed after two lookups.
C18_Witness ==
    \E p \in Procs :
        /\ Done(p, "connect") /\ call[p].deployed
        /\ call[p].polls = 2 /\ "poll" \in call[p].exhausted
        /\ call[p].result.payload.deployed = TRUE

----------------------------------------------------------------------------
\* The accounts upstream and the stored link

\* No invocation is in progress.
Quiescent == \A p \in Procs : call[p].pc \in {"idle", "done"}

\* C20: in every reachable state at most one account created by a connect
\* of the user is live upstream, and when no invocation is in progress that
\* account is the one the stored link refers to.
C20_AtMostOneLiveAccount ==
    /\ Cardinality(remote) <= 1
    /\ Quiescent /\ remote # {}
        => store.exists /\ remote = {store.metaApiAccountId}

----------------------------------------------------------------------------
\* Two invocations of the same user at once: each of the two runs one
\* connectBroker or one getUserStatus, their awaits interleaved in any order.

\* The document after an earlier connect, whose account 1 is live.
LinkedDoc == Doc(TRUE, 1, "Xyz-Live", "12345", "mt5", "user@mail", TRUE, FALSE, TRUE)

InitRace ==
    /\ \E linked \in BOOLEAN :
        /\ store = IF linked THEN LinkedDoc ELSE NoDoc
        /\ remote = IF linked THEN {1} ELSE {}
        /\ nextId = IF linked THEN 2 ELSE 1
    /\ procs = Procs
    /\ call = [p \in Procs |-> NewCall("none", "idle")]
    /\ mf = [p \in Procs |-> MfIdle]

\* One response of each kind: a 2xx (a status lookup of the polling reports
\* the account deploying or deployed and connected), a 202 without
\* retry-after outside the polling, a 500 without a body, and a 500 saying
\* that the account already exists for the create request.
OneOfEachKind(site, res) ==
    /\ res.kind = "http"
    /\ \/ /\ ResOk(res.status) /\ res.status # 202
          /\ site = "poll"
                => (res.value.state = "DEPLOYED")
                        <=> (res.value.connectionStatus = "CONNECTED")
       \/ res.status = 202 /\ res.hint = HintAbsent /\ site # "poll"
       \/ res.status = 500 /\ ~res.parses
       \/ res.status = 500 /\ res.message = MsgAlreadyExists /\ site = "create"

NextRace ==
    \E p \in Procs :
        \/ MetaFetchSend(p) /\ OneOfEachKind(mf[p].site, mf'[p].res)
        \/ MetaFetchSleep(p)
        \/ MetaFetchGiveUp(p)
        \/ call[p].pc = "idle" /\ ConnectBroker(p)
        \/ ConnectGotDoc(p)
        \/ ConnectAfterLookup(p)
        \/ ConnectAfterCreate(p)
        \/ ConnectSet(p)
        \/ ConnectPollSleep(p)
        \/ ConnectAfterPoll(p)
        \/ call[p].pc = "idle" /\ GetUserStatus(p)
        \/ UserStatusGotDoc(p)

SpecRace == InitRace /\ [][NextRace]_vars

\* The account a connect that returned success has created or found linked.
AccountOf(p) == IF call[p].createOk THEN call[p].accountId ELSE call[p].existingId

\* C19: when two connects of the same user, with the same credentials, run
\* at once, then under every interleaving, once both have ended, the stored
\* link holds one account identifier and every one of them that returned
\* success created or confirmed that account.
C19_ConcurrentConnectsConverge ==
    (\A p \in Procs : Done(p, "connect"))
        => \A p \in Procs :
            Succeeded(p) => store.exists /\ store.metaApiAccountId = AccountOf(p)

\* The polling of p has begun: it is in the loop, or has issued a lookup, or
\* has returned after writing the link.
PollingBegun(p) ==
    InPollLoop(p) \/ call[p].polls > 0 \/ (Done(p, "connect") /\ call[p].wrote)

\* C17: in every connect whose create request succeeded, the write of the
\* link, a merge that keeps the fields it does not name, is complete before
\* the first status lookup of the polling is issued, so that a getUserStatus
\* at any moment during or after the polling reports connected: true,
\* wherever the polling stops.
C17_LinkStoredBeforePolling ==
    /\ [](\A p \in Procs :
            PollingBegun(p)
                => /\ call[p].wrote /\ call[p].createOk
                   /\ StatusOf(store).payload.connected = TRUE)
    /\ [][\A p \in Procs :
            /\ call[p].pc = "c_set" /\ HandlerStep(p) /\ call'[p].wrote
                => /\ call[p].polls = 0 /\ call'[p].polls = 0
                   /\ store'.exists
                   /\ store'.metaApiAccountId = call[p].accountId
                   /\ store'.brokerServer = call[p].link.brokerServer
                   /\ store'.mtLogin = call[p].link.mtLogin
                   /\ store'.profile = store.profile
                   /\ store'.disconnectedAt = store.disconnectedAt
            /\ call[p].pc = "s_get" /\ HandlerStep(p)
               /\ (\E q \in Procs : PollingBegun(q))
                => call'[p].result.payload.connected = TRUE]_vars

\* A getUserStatus that ran while the connect of the other invocation, the
\* first of a user without a document, was polling: it reported connected.
C17_Witness ==
    \E p, q \in Procs :
        /\ p # q /\ InPollLoop(p) /\ call[p].polls >= 1 /\ call[p].createOk
        /\ remote = {1} /\ nextId = 2 /\ store.metaApiAccountId = call[p].accountId
        /\ Done(q, "status") /\ Succeeded(q)
        /\ call[q].result.payload.connected = TRUE

----------------------------------------------------------------------------
\* What the operations leave alone

\* p takes a step, of its handler or of the metaFetch it awaits.
Step(p) == call'[p] # call[p] \/ mf'[p] # mf[p]

\* C21: a connect that fails (unauthenticated, invalid-argument,
\* already-exists, or an internal failure of the create request) leaves the
\* document as it was before the call; the account identifier is written
\* only with the identifier that a successful create request of the same
\* invocation returned.
C21_FailedConnectWritesNothing ==
    /\ [](\A p \in Procs :
            Done(p, "connect") /\ Failed(p)
                => ~call[p].wrote /\ call[p].polls = 0)
    /\ [][\A p \in Procs :
            call'[p].op = "connect" /\ Step(p)
                => IF call[p].pc = "c_set" /\ call'[p].wrote
                   THEN /\ call[p].createOk /\ call[p].creates = 1
                        /\ call[p].accountId # NoId
                        /\ call[p].accountId = nextId - 1
                        /\ store'.metaApiAccountId = call[p].accountId
                        /\ ~Failed(p)'
                   ELSE store' = store]_vars

\* A connect of a user whose linked account could not be looked up and whose
\* create request was answered "already exists": it failed, and the document
\* still holds the link it had.
C21_Witness ==
    \E p \in Procs :
        /\ Done(p, "connect") /\ call[p].result.code = "already-exists"
        /\ call[p].existingId # NoId /\ call[p].creates = 1
        /\ store.metaApiAccountId = call[p].existingId

\* The operations that only read.
ReadOperations == {"status", "info", "metrics", "trades", "growth"}

\* C22: getUserStatus, getAccountInfo, getMetrics, getTrades and
\* getDailyGrowth never write the document: through any sequence of them,
\* whatever the upstream answers (the enable request after a 403 and the
\* second source of getTrades included), the document stays as it is.
C22_ReadOperationsWriteNothing ==
    /\ [](\A p \in Procs : call[p].op \in ReadOperations => ~call[p].wrote)
    /\ [][\A p \in Procs :
            call'[p].op \in ReadOperations /\ Step(p) => store' = store]_vars

\* A getMetrics call that went through the enable request and returned,
\* with the link of the document as it found it.
C22_Witness ==
    \E p \in Procs :
        /\ Done(p, "metrics") /\ call[p].result = MetricsEnabling
        /\ call[p].sent >= 2 /\ ~call[p].wrote
        /\ store.exists /\ store.metaApiAccountId = call[p].accountId

====
